---- MODULE Spec2Model ----
(***************************************************************************)
(* fits_to_mp4.py: FITS frames -> temp_frames artifacts -> encoder         *)
(* selection -> ffmpeg command -> encode with one software fallback ->     *)
(* cleanup of temp_frames.  The script runs top to bottom on one thread;   *)
(* pc is its position.  The environment (directory contents, decodability  *)
(* of each source image, outcome of every spawned ffmpeg process) is       *)
(* nondeterministic.                                                       *)
(***************************************************************************)
EXTENDS Integers, Sequences, FiniteSets, TLC

VARIABLES
    pc,                 \* position of the script
    args,               \* parsed command line: bmp, png, test, prefix
    source,             \* the files of source_dir
    dir_exists,         \* whether source_dir/temp_frames exists
    dir_created,        \* history: line 24 created temp_frames
    temp_files,         \* the files in source_dir/temp_frames
    created,            \* history: files this job wrote into temp_frames
    fits_files,         \* the script's list of input files
    frames,             \* shapes of the rgb arrays persisted so far
    height, width,      \* module-level names of lines 80 and 199
    available_encoders, \* local of check_gpu_encoders: listed candidates
    cand,               \* loop position in encoders_to_try
    procs,              \* history: every subprocess.run call, in order
    encoder,            \* the selected encoder
    file_extension,     \* extension of the cleanup glob
    input_pattern,      \* image-sequence pattern (a file name with %04d)
    ffmpeg_cmd,         \* argv of the primary encode
    err,                \* the exception that ended the script, if any
    data,               \* one decoded sample grid (line 63)
    norm,               \* its normalised samples (lines 71, 76)
    rgb,                \* the frame that is persisted (lines 73-84)
    fpe,                \* floating-point exceptions the normalisation hit
    idx,                \* two values of the loop index i of line 60
    names               \* the zero-padded index of each, as characters

\* the state of the transform of one frame, lines 63-84
frame_vars == <<data, norm, rgb, fpe>>

name_vars == <<idx, names>>

vars == <<pc, args, source, dir_exists, dir_created, temp_files, created,
          fits_files, frames, height, width, available_encoders, cand, procs,
          encoder, file_extension, input_pattern, ffmpeg_cmd, err, frame_vars,
          name_vars>>

-----------------------------------------------------------------------------
(* Bounds of the model *)

MaxFrames == 2

\* largest height and width of a sample grid in the frame-transform model
MaxDim == 2

\* largest sample value of a grid in the frame-transform model
MaxSample == 2

\* (height, width) of the decodable source images of the model
Shapes == {<<3, 2>>}

-----------------------------------------------------------------------------
(* Names, files and paths *)

Unset == "<unset>"

\* f'{i:04d}'
Pad4(i) ==
    IF i < 10 THEN "000" \o ToString(i)
    ELSE IF i < 100 THEN "00" \o ToString(i)
    ELSE IF i < 1000 THEN "0" \o ToString(i)
    ELSE ToString(i)

File(stem, ext) == [stem |-> stem, ext |-> ext]

\* every frame written under the name of frame 0
FrameFileNoIndex(i, ext) == File("frame_" \o Pad4(0), ext)

\* f'frame_{i:04d}.<ext>' in temp_dir
FrameFile(i, ext) == File("frame_" \o Pad4(i), ext)

\* 'frame_%04d.<ext>' in temp_dir
PatternFile(ext) == File("frame_%04d", ext)

\* os.path.join(temp_dir, 'raw_frames.rgb')
raw_temp_file == File("raw_frames", "rgb")

\* os.path.join(temp_dir, name)
temp_dir == "temp_frames"

Path(f) == temp_dir \o "/" \o f.stem \o "." \o f.ext

output_file == "animation.mp4"

\* glob.glob(os.path.join(temp_dir, '*.<ext>'))
Glob(files, ext) == {f \in files : f.ext = ext}

-----------------------------------------------------------------------------
(* Source file names and their collection, lines 27-46 *)

\* a file name is the sequence of the characters before its extension, and
\* the extension
Digits == {"0", "1", "2", "3", "4", "5", "6", "7", "8", "9"}

\* ord(c) of the characters the model uses
Ord(c) ==
    CASE c = "." -> 46
      [] c \in Digits -> 48 + (CHOOSE d \in 0..9 : ToString(d) = c)
      [] c = "_" -> 95
      [] c = "a" -> 97
      [] c = "r" -> 114
      [] c = "x" -> 120

\* str < str of Python: the first differing character decides, a proper
\* prefix is smaller
RECURSIVE StrLess(_, _)
StrLess(a, b) ==
    IF b = <<>> THEN FALSE
    ELSE IF a = <<>> THEN TRUE
    ELSE IF Head(a) # Head(b) THEN Ord(Head(a)) < Ord(Head(b))
    ELSE StrLess(Tail(a), Tail(b))

\* os.path.basename(f) up to the characters all *.fits names share
Basename(f) == f.stem \o <<".">>

\* sorted(files): the paths differ in their basenames only
RECURSIVE sorted(_)
sorted(files) ==
    IF files = {} THEN <<>>
    ELSE LET first == CHOOSE f \in files :
                         \A g \in files \ {f} : StrLess(Basename(f), Basename(g))
         IN  <<first>> \o sorted(files \ {first})

StartsWith(stem, prefix) ==
    /\ Len(prefix) <= Len(stem)
    /\ SubSeq(stem, 1, Len(prefix)) = prefix

\* glob.glob(os.path.join(source_dir, f'{prefix}*.fits')); the prefix is
\* empty for '*.fits'
GlobFits(files, prefix) ==
    {f \in files : f.ext = "fits" /\ StartsWith(f.stem, prefix)}

\* re.match(rf'^{re.escape(prefix)}.*\d+\.fits$', basename): the prefix, any
\* characters, one or more digits, then .fits
PrefixMatch(prefix, f) ==
    /\ f.ext = "fits"
    /\ StartsWith(f.stem, prefix)
    /\ \E j \in Len(prefix)..(Len(f.stem) - 1) :
          \A k \in (j + 1)..Len(f.stem) : f.stem[k] \in Digits

\* `if args.prefix:` is false for None and for the empty string
NoPrefix == <<>>

\* lines 27-46: the value of fits_files
CollectFiles(files, prefix) ==
    IF prefix # NoPrefix
    THEN sorted({f \in GlobFits(files, prefix) : PrefixMatch(prefix, f)})
    ELSE sorted(GlobFits(files, NoPrefix))

-----------------------------------------------------------------------------
(* Errors *)

NoCmd == <<>>

NoError == [type |-> "none", at |-> "none", cmd |-> NoCmd, rc |-> 0]

Raise(type, at) == [type |-> type, at |-> at, cmd |-> NoCmd, rc |-> 1]

\* subprocess.run(cmd, check=True) on a nonzero exit status
CalledProcessError(at, cmd, rc) ==
    [type |-> "CalledProcessError", at |-> at, cmd |-> cmd, rc |-> rc]

-----------------------------------------------------------------------------
(* Frame extraction *)

\* the format extraction writes: args.bmp is tested before args.png
\* the format choice with --png taking precedence over --bmp
ArtifactExtPngFirst(a) == IF a.png THEN "png" ELSE IF a.bmp THEN "bmp" ELSE "npy"

ArtifactExt(a) == IF a.bmp THEN "bmp" ELSE IF a.png THEN "png" ELSE "npy"

\* one more row (column) when the height (width) is odd
PadEven(n) == IF n % 2 # 0 THEN n + 1 ELSE n

-----------------------------------------------------------------------------
(* Encoder selection *)

encoders_to_try ==
    <<"h264_vaapi", "h264_amf", "h264_nvenc", "h264_videotoolbox">>

Candidates == {encoders_to_try[k] : k \in 1..Len(encoders_to_try)}

\* what a subprocess.run call can do: exit 0, exit nonzero, exceed its
\* timeout (TimeoutExpired), or fail to start (OSError, FileNotFoundError)
RunOutcomes == {"rc0", "rc1", "timeout", "oserror"}

\* the production encodes are run without a timeout
EncodeOutcomes == {"rc0", "rc1", "oserror"}

query_cmd == <<"ffmpeg", "-hide_banner", "-encoders">>

test_cmd(enc) ==
    <<"ffmpeg", "-hide_banner", "-loglevel", "error", "-f", "lavfi", "-i",
      "testsrc=duration=0.1:size=64x64:rate=1", "-c:v", enc, "-t", "0.1",
      "-f", "null", "-">>

\* except (subprocess.SubprocessError, subprocess.TimeoutExpired): the
\* handler of lines 110 and 129.  TimeoutExpired is a SubprocessError; the
\* OSError of a failed launch is not.
Caught(outcome) == outcome = "timeout"

\* test_encoder: "True", "False", or "raise" when the exception escapes
test_encoder(outcome) ==
    IF outcome = "rc0" THEN "True"
    ELSE IF outcome = "rc1" THEN "False"
    ELSE IF Caught(outcome) THEN "False"
    ELSE "raise"

\* the loop of line 139 without the test of line 140
ListedAlways(enc, avail) == TRUE

\* `encoder in available_encoders`
Listed(enc, avail) == enc \in avail

-----------------------------------------------------------------------------
(* ffmpeg command lines *)

SizeArg(w, h) == ToString(w) \o "x" \o ToString(h)

\* lines 176-181
VaapiRawCmd(pattern) ==
    <<"ffmpeg", "-y", "-framerate", "60", "-i", Path(pattern),
      "-c:v", "h264_vaapi", "-b:v", "8M", output_file>>

\* the raw-stream input without its frame size
base_cmd_no_size(w, h) ==
    <<"ffmpeg", "-y", "-f", "rawvideo", "-vcodec", "rawvideo",
      "-pix_fmt", "rgb24", "-r", "60", "-i", Path(raw_temp_file)>>

\* lines 202-206
base_cmd(w, h) ==
    <<"ffmpeg", "-y", "-f", "rawvideo", "-vcodec", "rawvideo",
      "-s", SizeArg(w, h), "-pix_fmt", "rgb24", "-r", "60",
      "-i", Path(raw_temp_file)>>

\* the raw-stream command with the quality arguments of libx264 for every
\* encoder
RawCmdCrf(enc, w, h) ==
    base_cmd(w, h) \o
    <<"-c:v", enc, "-pix_fmt", "yuv420p", "-crf", "23", output_file>>

\* lines 208-211
RawCmd(enc, w, h) ==
    IF enc = "libx264"
    THEN base_cmd(w, h) \o
         <<"-c:v", enc, "-pix_fmt", "yuv420p", "-crf", "23", output_file>>
    ELSE base_cmd(w, h) \o
         <<"-c:v", enc, "-pix_fmt", "yuv420p", "-b:v", "8M", output_file>>

\* lines 216-241
ImageCmd(enc, pattern) ==
    IF enc = "libx264"
    THEN <<"ffmpeg", "-y", "-framerate", "60", "-i", Path(pattern),
           "-c:v", enc, "-pix_fmt", "yuv420p", "-crf", "23", output_file>>
    ELSE IF enc = "h264_vaapi"
    THEN <<"ffmpeg", "-y", "-framerate", "60",
           "-hwaccel", "vaapi", "-hwaccel_output_format", "vaapi",
           "-i", Path(pattern),
           "-c:v", "h264_vaapi", "-b:v", "8M", output_file>>
    ELSE <<"ffmpeg", "-y", "-framerate", "60", "-i", Path(pattern),
           "-c:v", enc, "-pix_fmt", "yuv420p", "-b:v", "8M", output_file>>

\* the fallback command with the failing encoder left in place
fallback_cmd_same_encoder(a, enc, pattern, w, h) ==
    IF a.bmp \/ a.png \/ enc = "h264_vaapi"
    THEN ImageCmd(enc, IF enc = "h264_vaapi" THEN PatternFile("bmp") ELSE pattern)
    ELSE RawCmd(enc, w, h)

\* lines 249-271
fallback_cmd(a, enc, pattern, w, h) ==
    IF a.bmp \/ a.png \/ enc = "h264_vaapi"
    THEN LET fallback_input ==
                 IF enc = "h264_vaapi" THEN PatternFile("bmp") ELSE pattern
         IN  <<"ffmpeg", "-y", "-framerate", "60", "-i", Path(fallback_input),
               "-c:v", "libx264", "-pix_fmt", "yuv420p", "-crf", "23",
               output_file>>
    ELSE <<"ffmpeg", "-y", "-f", "rawvideo", "-vcodec", "rawvideo",
           "-s", SizeArg(w, h), "-pix_fmt", "rgb24", "-r", "60",
           "-i", Path(raw_temp_file),
           "-c:v", "libx264", "-pix_fmt", "yuv420p", "-crf", "23",
           output_file>>

\* the value of the -c:v argument of a command line
CodecOf(cmd) ==
    LET k == CHOOSE j \in 1..(Len(cmd) - 1) : cmd[j] = "-c:v" IN cmd[k + 1]

-----------------------------------------------------------------------------
(* Initial state: the command line, the source directory, and whatever an  *)
(* earlier run or the user left in temp_frames (makedirs has exist_ok).    *)

UnsetFile == File(Unset, Unset)

\* no sample grid is held
NoGrid == <<>>

\* a file of source_dir: its name, whether fits.getdata can decode it, and
\* the height and width of the image it holds
SourceFile(stem, ext, ok, h, w) ==
    [stem |-> stem, ext |-> ext, ok |-> ok, h |-> h, w |-> w]

Unreadable(stem) == SourceFile(stem, "fits", FALSE, 0, 0)

Readable(stem) == {SourceFile(stem, "fits", TRUE, s[1], s[2]) : s \in Shapes}

\* a directory holds one file of a name
UniqueNames(files) ==
    \A f, g \in files : (f.stem = g.stem /\ f.ext = g.ext) => f = g

\* the file names of the job model: r_1.fits, r_2.fits, ...
JobStems == {<<"r", "_", ToString(k)>> : k \in 1..MaxFrames}

\* the directories of the job model
JobDirectories ==
    {d \in SUBSET UNION {{Unreadable(n)} \cup Readable(n) : n \in JobStems} :
        UniqueNames(d)}

\* the values of --prefix in the job model: absent, matching, not matching
JobPrefixes == {NoPrefix, <<"r", "_">>, <<"x", "_">>}

\* still images an earlier job can have left behind
LeftoverPool == {FrameFile(k, e) : k \in 0..MaxFrames, e \in {"bmp", "png"}}

Init ==
    /\ pc = "start"
    /\ args \in [bmp : BOOLEAN, png : BOOLEAN, test : BOOLEAN,
                 prefix : JobPrefixes]
    /\ source \in JobDirectories
    /\ temp_files \in {{}} \cup {{f} : f \in LeftoverPool}
    /\ dir_exists \in BOOLEAN
    /\ temp_files # {} => dir_exists
    /\ dir_created = FALSE
    /\ created = {}
    /\ fits_files = <<>>
    /\ frames = <<>>
    /\ height = 0
    /\ width = 0
    /\ available_encoders = {}
    /\ cand = 0
    /\ procs = <<>>
    /\ encoder = Unset
    /\ file_extension = Unset
    /\ input_pattern = UnsetFile
    /\ ffmpeg_cmd = NoCmd
    /\ err = NoError
    /\ data = NoGrid
    /\ norm = NoGrid
    /\ rgb = NoGrid
    /\ fpe = {}
    /\ idx = <<>>
    /\ names = <<>>

-----------------------------------------------------------------------------
(* The script, step by step *)

\* an uncaught exception (or sys.exit) ends the script where it is raised
Terminate(e) == pc' = "done" /\ err' = e

\* one subprocess.run call: what was run, how it ended, and its stdout as
\* the set of candidate encoders it lists (the capability query only)
Proc(kind, cmd, res, out) ==
    [kind |-> kind, cmd |-> cmd, res |-> res, out |-> out]

\* line 24: os.makedirs(temp_dir, exist_ok=True)
MakeDirs ==
    /\ pc = "start"
    /\ UNCHANGED frame_vars
    /\ UNCHANGED name_vars
    /\ dir_exists' = TRUE
    /\ dir_created' = ~dir_exists
    /\ pc' = "collect"
    /\ UNCHANGED <<args, source, temp_files, created, fits_files, frames,
                   height, width, available_encoders, cand, procs, encoder,
                   file_extension, input_pattern, ffmpeg_cmd, err>>

\* lines 27-46: the list of input files; sys.exit(1) when a prefix is given
\* and nothing matches
Collect ==
    /\ pc = "collect"
    /\ UNCHANGED frame_vars
    /\ UNCHANGED name_vars
    /\ UNCHANGED dir_created
    /\ fits_files' = CollectFiles(source, args.prefix)
    /\ IF args.prefix # NoPrefix /\ CollectFiles(source, args.prefix) = <<>>
       THEN Terminate(Raise("SystemExit", "collect"))
       ELSE pc' = "extract" /\ err' = err
    /\ UNCHANGED <<args, source, dir_exists, temp_files, created, frames,
                   height, width, available_encoders, cand, procs, encoder,
                   file_extension, input_pattern, ffmpeg_cmd>>

\* the loop with an unreadable image skipped and the later ones renumbered
ExtractFrameSkip ==
    /\ pc = "extract"
    /\ UNCHANGED frame_vars
    /\ UNCHANGED name_vars
    /\ UNCHANGED dir_created
    /\ Len(frames) < Len(fits_files)
    /\ LET i == Len(frames)
           f == fits_files[i + 1]
           art == FrameFile(i, ArtifactExt(args))
       IN  IF ~f.ok
           THEN /\ fits_files' = SubSeq(fits_files, 1, i) \o
                                 SubSeq(fits_files, i + 2, Len(fits_files))
                /\ UNCHANGED <<temp_files, created, frames, height, width>>
           ELSE /\ height' = f.h
                /\ width' = f.w
                /\ frames' = Append(frames, [src |-> f.stem, h |-> PadEven(f.h),
                                             w |-> PadEven(f.w)])
                /\ temp_files' = temp_files \cup {art}
                /\ created' = created \cup {art}
                /\ UNCHANGED fits_files
    /\ UNCHANGED <<pc, err, args, source, dir_exists, available_encoders,
                   cand, procs, encoder, file_extension, input_pattern,
                   ffmpeg_cmd>>

\* lines 60-97, one iteration: decode, normalise, pad, persist
ExtractFrame ==
    /\ pc = "extract"
    /\ UNCHANGED frame_vars
    /\ UNCHANGED name_vars
    /\ UNCHANGED dir_created
    /\ Len(frames) < Len(fits_files)
    /\ LET i == Len(frames)
           f == fits_files[i + 1]
           art == FrameFile(i, ArtifactExt(args))
       IN  IF ~f.ok
           THEN /\ Terminate(Raise("DecodeError", "extract"))
                /\ UNCHANGED <<temp_files, created, frames, height, width>>
           ELSE /\ height' = f.h
                /\ width' = f.w
                /\ frames' = Append(frames, [src |-> f.stem, h |-> PadEven(f.h),
                                             w |-> PadEven(f.w)])
                /\ temp_files' = temp_files \cup {art}
                /\ created' = created \cup {art}
                /\ UNCHANGED <<pc, err>>
    /\ UNCHANGED <<args, source, dir_exists, fits_files, available_encoders,
                   cand, procs, encoder, file_extension, input_pattern,
                   ffmpeg_cmd>>

\* the loop left before the last input file is processed
ExtractDoneEarly ==
    /\ pc = "extract"
    /\ UNCHANGED frame_vars
    /\ UNCHANGED name_vars
    /\ UNCHANGED dir_created
    /\ Len(frames) <= Len(fits_files)
    /\ pc' = "query"
    /\ UNCHANGED <<args, source, dir_exists, temp_files, created, fits_files,
                   frames, height, width, available_encoders, cand, procs,
                   encoder, file_extension, input_pattern, ffmpeg_cmd, err>>

\* the loop of line 60 is exhausted; line 153 calls check_gpu_encoders
ExtractDone ==
    /\ pc = "extract"
    /\ UNCHANGED frame_vars
    /\ UNCHANGED name_vars
    /\ UNCHANGED dir_created
    /\ Len(frames) = Len(fits_files)
    /\ pc' = "query"
    /\ UNCHANGED <<args, source, dir_exists, temp_files, created, fits_files,
                   frames, height, width, available_encoders, cand, procs,
                   encoder, file_extension, input_pattern, ffmpeg_cmd, err>>

\* check_gpu_encoders returns enc: its locals go, line 153 binds encoder
Return(enc) ==
    /\ encoder' = enc
    /\ available_encoders' = {}
    /\ cand' = 0
    /\ pc' = "build"
    /\ err' = err

\* lines 123-135: the capability query and the test_encoders switch
Query ==
    /\ pc = "query"
    /\ UNCHANGED frame_vars
    /\ UNCHANGED name_vars
    /\ UNCHANGED dir_created
    /\ \E res \in RunOutcomes, listed \in SUBSET Candidates :
          /\ res \in {"timeout", "oserror"} => listed = {}
          /\ procs' = Append(procs, Proc("query", query_cmd, res, listed))
          /\ IF res \in {"rc0", "rc1"}
             THEN IF ~args.test
                  THEN Return("libx264")
                  ELSE /\ available_encoders' = listed
                       /\ cand' = 1
                       /\ pc' = "testing"
                       /\ UNCHANGED <<encoder, err>>
             ELSE IF Caught(res)
                  THEN Return("libx264")
                  ELSE /\ Terminate(Raise("OSError", "query"))
                       /\ UNCHANGED <<encoder, available_encoders, cand>>
    /\ UNCHANGED <<args, source, dir_exists, temp_files, created, fits_files,
                   frames, height, width, file_extension, input_pattern,
                   ffmpeg_cmd>>

\* lines 139-140: a candidate that is not in the compiled list is passed over
SkipCandidate ==
    /\ pc = "testing"
    /\ UNCHANGED frame_vars
    /\ UNCHANGED name_vars
    /\ UNCHANGED dir_created
    /\ cand <= Len(encoders_to_try)
    /\ ~Listed(encoders_to_try[cand], available_encoders)
    /\ cand' = cand + 1
    /\ UNCHANGED <<pc, args, source, dir_exists, temp_files, created,
                   fits_files, frames, height, width, available_encoders,
                   procs, encoder, file_extension, input_pattern, ffmpeg_cmd,
                   err>>

\* lines 139-146: the smoke test of a listed candidate
TestCandidate ==
    /\ pc = "testing"
    /\ UNCHANGED frame_vars
    /\ UNCHANGED name_vars
    /\ UNCHANGED dir_created
    /\ cand <= Len(encoders_to_try)
    /\ Listed(encoders_to_try[cand], available_encoders)
    /\ \E res \in RunOutcomes :
          LET enc == encoders_to_try[cand]
              passed == test_encoder(res)
          IN  /\ procs' = Append(procs, Proc("smoke", test_cmd(enc), res, {}))
              /\ IF passed = "True"
                 THEN Return(enc)
                 ELSE IF passed = "False"
                 THEN /\ cand' = cand + 1
                      /\ UNCHANGED <<pc, encoder, available_encoders, err>>
                 ELSE /\ Terminate(Raise("OSError", "smoke"))
                      /\ UNCHANGED <<encoder, available_encoders, cand>>
    /\ UNCHANGED <<args, source, dir_exists, temp_files, created, fits_files,
                   frames, height, width, file_extension, input_pattern,
                   ffmpeg_cmd>>

\* lines 148-149: the candidate list is exhausted
NoneWorking ==
    /\ pc = "testing"
    /\ UNCHANGED frame_vars
    /\ UNCHANGED name_vars
    /\ UNCHANGED dir_created
    /\ cand > Len(encoders_to_try)
    /\ Return("libx264")
    /\ UNCHANGED <<args, source, dir_exists, temp_files, created, fits_files,
                   frames, height, width, procs, file_extension,
                   input_pattern, ffmpeg_cmd>>

-----------------------------------------------------------------------------
(* Pipeline construction, lines 157-241 *)

\* the raw branch runs for neither --bmp nor --png
RawArtifacts(a) == ~(a.bmp \/ a.png)

\* range(len(fits_files)) as artifact names
ArtifactsOf(n, ext) == {FrameFile(i, ext) : i \in 0..(n - 1)}

Build ==
    /\ pc = "build"
    /\ UNCHANGED frame_vars
    /\ UNCHANGED name_vars
    /\ UNCHANGED dir_created
    /\ LET n == Len(fits_files) IN
       IF ~RawArtifacts(args)
       THEN \* lines 158-163 and 216-241
            /\ input_pattern' = PatternFile(ArtifactExt(args))
            /\ file_extension' = ArtifactExt(args)
            /\ ffmpeg_cmd' = ImageCmd(encoder, PatternFile(ArtifactExt(args)))
            /\ pc' = "primary"
            /\ UNCHANGED <<temp_files, created, height, width, err>>
       ELSE IF encoder = "h264_vaapi"
       THEN \* lines 166-183: every .npy is written again as a .bmp
            /\ temp_files' = temp_files \cup ArtifactsOf(n, "bmp")
            /\ created' = created \cup ArtifactsOf(n, "bmp")
            /\ input_pattern' = PatternFile("bmp")
            /\ ffmpeg_cmd' = VaapiRawCmd(PatternFile("bmp"))
            /\ file_extension' = "npy"
            /\ pc' = "primary"
            /\ UNCHANGED <<height, width, err>>
       ELSE \* lines 186-213: the frames are concatenated into raw_frames.rgb
            /\ temp_files' = temp_files \cup {raw_temp_file}
            /\ created' = created \cup {raw_temp_file}
            /\ IF n = 0
               THEN \* raw_frames[0] of an empty list
                    /\ Terminate(Raise("IndexError", "build"))
                    /\ UNCHANGED <<height, width, ffmpeg_cmd, file_extension>>
               ELSE /\ height' = frames[1].h
                    /\ width' = frames[1].w
                    /\ ffmpeg_cmd' = RawCmd(encoder, frames[1].w, frames[1].h)
                    /\ file_extension' = "npy"
                    /\ pc' = "primary"
                    /\ err' = err
            /\ UNCHANGED input_pattern
    /\ UNCHANGED <<args, source, dir_exists, fits_files, frames,
                   available_encoders, cand, procs, encoder>>

-----------------------------------------------------------------------------
(* Encode with one fallback, lines 243-274 *)

\* subprocess.run without check=True
FailedUnchecked(res) == FALSE

\* subprocess.run(cmd, check=True) raises CalledProcessError
Failed(res) == res = "rc1"

\* the retry without the test of line 246
NeedsFallbackAlways(enc) == TRUE

\* line 246
NeedsFallback(enc) == enc # "libx264"

Primary ==
    /\ pc = "primary"
    /\ UNCHANGED frame_vars
    /\ UNCHANGED name_vars
    /\ UNCHANGED dir_created
    /\ \E res \in EncodeOutcomes :
          /\ procs' = Append(procs, Proc("primary", ffmpeg_cmd, res, {}))
          /\ IF Failed(res)
             THEN IF NeedsFallback(encoder)
                  THEN pc' = "fallback" /\ err' = err
                  ELSE \* raise e
                       Terminate(CalledProcessError("primary", ffmpeg_cmd, 1))
             ELSE IF res = "oserror"
             THEN Terminate(Raise("OSError", "primary"))
             ELSE pc' = "cleanup" /\ err' = err
    /\ UNCHANGED <<args, source, dir_exists, temp_files, created, fits_files,
                   frames, height, width, available_encoders, cand, encoder,
                   file_extension, input_pattern, ffmpeg_cmd>>

\* lines 247-272: fallback_cmd is built and run inside the except block
Fallback ==
    /\ pc = "fallback"
    /\ UNCHANGED frame_vars
    /\ UNCHANGED name_vars
    /\ UNCHANGED dir_created
    /\ \E res \in EncodeOutcomes :
          LET cmd == fallback_cmd(args, encoder, input_pattern, width, height)
          IN  /\ procs' = Append(procs, Proc("fallback", cmd, res, {}))
              /\ IF Failed(res)
                 THEN Terminate(CalledProcessError("fallback", cmd, 1))
                 ELSE IF res = "oserror"
                 THEN Terminate(Raise("OSError", "fallback"))
                 ELSE pc' = "cleanup" /\ err' = err
    /\ UNCHANGED <<args, source, dir_exists, temp_files, created, fits_files,
                   frames, height, width, available_encoders, cand, encoder,
                   file_extension, input_pattern, ffmpeg_cmd>>

-----------------------------------------------------------------------------
(* Cleanup, lines 276-295 *)

\* lines 277-291: the three removals
\* the removals without the BMPs written for h264_vaapi
RemovedNoVaapiBmp(files, a, enc, ext) ==
    Glob(files, ext)
    \cup (IF ~(a.bmp \/ a.png) /\ enc # "h264_vaapi"
          THEN files \cap {raw_temp_file} ELSE {})

Removed(files, a, enc, ext) ==
    Glob(files, ext)
    \cup (IF ~a.bmp /\ enc = "h264_vaapi" THEN Glob(files, "bmp") ELSE {})
    \cup (IF ~(a.bmp \/ a.png) /\ enc # "h264_vaapi"
          THEN files \cap {raw_temp_file} ELSE {})

CleanupFiles ==
    /\ pc = "cleanup"
    /\ UNCHANGED frame_vars
    /\ UNCHANGED name_vars
    /\ UNCHANGED dir_created
    /\ temp_files' = temp_files \ Removed(temp_files, args, encoder, file_extension)
    /\ pc' = "rmdir"
    /\ UNCHANGED <<args, source, dir_exists, created, fits_files, frames,
                   height, width, available_encoders, cand, procs, encoder,
                   file_extension, input_pattern, ffmpeg_cmd, err>>

\* line 293: os.rmdir raises OSError on a directory that is not empty
Rmdir ==
    /\ pc = "rmdir"
    /\ UNCHANGED frame_vars
    /\ UNCHANGED name_vars
    /\ UNCHANGED dir_created
    /\ IF temp_files = {}
       THEN dir_exists' = FALSE /\ pc' = "done" /\ err' = err
       ELSE Terminate(Raise("OSError", "rmdir")) /\ UNCHANGED dir_exists
    /\ UNCHANGED <<args, source, temp_files, created, fits_files, frames,
                   height, width, available_encoders, cand, procs, encoder,
                   file_extension, input_pattern, ffmpeg_cmd>>

-----------------------------------------------------------------------------

Next ==
    \/ MakeDirs
    \/ Collect
    \/ ExtractFrame
    \/ ExtractDone
    \/ Query
    \/ SkipCandidate
    \/ TestCandidate
    \/ NoneWorking
    \/ Build
    \/ Primary
    \/ Fallback
    \/ CleanupFiles
    \/ Rmdir

Spec == Init /\ [][Next]_vars

-----------------------------------------------------------------------------
(* Derived notions used by the properties *)

\* the production encode attempts, in launch order
attempts == SelectSeq(procs, LAMBDA p : p.kind \in {"primary", "fallback"})

\* the smoke tests, in launch order
smokes == SelectSeq(procs, LAMBDA p : p.kind = "smoke")

\* the capability queries
queries == SelectSeq(procs, LAMBDA p : p.kind = "query")

Done == pc = "done"

\* the script ran to its last line: exit status zero
ExitZero == Done /\ err.type = "none"

\* some encode attempt exited 0
EncodeSucceeded == \E k \in 1..Len(attempts) : attempts[k].res = "rc0"

\* an encode attempt exited nonzero and the error left the try block
EncodeFailed == err.type = "CalledProcessError"

\* control has left the try/except block of lines 243-274 without an error
PastEncode == pc \in {"cleanup", "rmdir"} \/ (Done /\ err.at \in {"none", "rmdir"})

\* files of this job still in temp_frames
OwnFilesLeft == created \cap temp_files

WorkspaceClean == OwnFilesLeft = {} /\ ~dir_exists

-----------------------------------------------------------------------------
(* C1 .. C10 *)

\* C1: when the selected encoder is not libx264 and the primary ffmpeg
\* process exits nonzero, exactly one further attempt is launched, it encodes
\* with libx264, and the encode outcome is success (control goes on to the
\* cleanup, no encode error) if it exits 0 and a fatal CalledProcessError of
\* the fallback command if it exits nonzero.
C1_OneSoftwareFallback ==
    (encoder # "libx264" /\ Len(attempts) >= 1 /\ attempts[1].res = "rc1") =>
        /\ pc = "fallback" => Len(attempts) = 1
        /\ pc # "fallback" =>
              /\ Len(attempts) = 2
              /\ attempts[2].kind = "fallback"
              /\ CodecOf(attempts[2].cmd) = "libx264"
              /\ attempts[2].res = "rc0" => PastEncode /\ ~EncodeFailed
              /\ attempts[2].res = "rc1" =>
                    /\ Done
                    /\ err = CalledProcessError("fallback", attempts[2].cmd, 1)

C1_Witness ==
    /\ encoder = "h264_nvenc"
    /\ Len(attempts) = 2
    /\ attempts[1].res = "rc1"
    /\ attempts[2].res = "rc0"
    /\ ExitZero

\* the primary and the fallback attempt both exited nonzero
BothEncodesFailed ==
    /\ Len(attempts) = 2
    /\ attempts[1].res = "rc1"
    /\ attempts[2].res = "rc1"

\* C2 (as claimed): after the job returns, on the success path and on the
\* path where the primary and the fallback attempt both failed, every file
\* the job created under temp_frames is gone and temp_frames does not exist.
C2_CleanAfterReturn ==
    (Done /\ (ExitZero \/ BothEncodesFailed)) => WorkspaceClean

\* C3: a job makes at most two production encode attempts, at most one of
\* them is a fallback, and no two attempts of a job use the same encoder.
C3_AtMostTwoAttempts ==
    /\ Len(attempts) <= 2
    /\ Cardinality({k \in 1..Len(attempts) : attempts[k].kind = "fallback"}) <= 1
    /\ \A j, k \in 1..Len(attempts) :
          j # k => CodecOf(attempts[j].cmd) # CodecOf(attempts[k].cmd)

C3_Witness ==
    /\ Len(attempts) = 2
    /\ attempts[2].kind = "fallback"
    /\ Done

\* C4: when the selected encoder is libx264 and its ffmpeg process exits
\* nonzero, no second attempt is launched and the CalledProcessError of that
\* attempt is the error the script ends with.
C4_SoftwareFailureIsFatal ==
    (encoder = "libx264" /\ Len(attempts) >= 1 /\ attempts[1].res = "rc1") =>
        /\ Len(attempts) = 1
        /\ Done
        /\ err = CalledProcessError("primary", attempts[1].cmd, 1)

C4_Witness ==
    /\ encoder = "libx264"
    /\ Len(attempts) = 1
    /\ attempts[1].res = "rc1"
    /\ Done
    /\ Len(frames) = MaxFrames

\* the fatal exits of the script that the error taxonomy names
FatalCondition ==
    \/ err.type = "DecodeError"
    \/ err.type = "SystemExit"
    \/ err.type = "IndexError"
    \/ err.type = "CalledProcessError" /\ CodecOf(err.cmd) = "libx264"

\* C5 (as claimed): on every fatal condition (a source image that fails to
\* decode, an empty input set, a failed software encode) the cleanup has run
\* when the error reaches the caller: the artifacts written so far and
\* temp_frames are gone.
C5_CleanupBeforeError ==
    (Done /\ FatalCondition) => WorkspaceClean

\* C6 (as claimed): a failure while removing a file or temp_frames never
\* changes the job outcome: a job whose encode succeeded terminates normally
\* and a job whose encode failed reports the encode error.
C6_CleanupNeverChangesOutcome ==
    Done =>
        /\ EncodeSucceeded => err.type = "none"
        /\ (Len(attempts) >= 1 /\ attempts[Len(attempts)].res = "rc1") =>
              err.type = "CalledProcessError"

\* C7: a job that terminates normally has had an encode attempt exit 0 and
\* has emptied and removed temp_frames.
C7_NormalExitMeansEncodedAndClean ==
    ExitZero => EncodeSucceeded /\ temp_files = {} /\ ~dir_exists

C7_Witness ==
    /\ ExitZero
    /\ Len(frames) = MaxFrames
    /\ created # {}

\* C8 (as claimed): check_gpu_encoders(test_encoders=False) returns libx264
\* in every environment, also when the capability query times out, fails or
\* cannot be launched, and runs no smoke test.
C8_NoTestAlwaysSoftware ==
    (~args.test /\ Len(queries) >= 1) =>
        /\ encoder = "libx264"
        /\ Len(smokes) = 0

\* the candidate a smoke test ran
SmokeEncoder(p) == CodecOf(p.cmd)

\* position of an encoder in encoders_to_try
Rank(enc) == CHOOSE k \in 1..Len(encoders_to_try) : encoders_to_try[k] = enc

\* what the capability query listed (nothing when it did not complete)
ListedByQuery == IF Len(queries) = 0 THEN {} ELSE queries[1].out

\* selection with test_encoders=True has returned
SelectionReturned == args.test /\ encoder # Unset

\* C9: with test_encoders=True the selected encoder is the first candidate,
\* in the order h264_vaapi, h264_amf, h264_nvenc, h264_videotoolbox, that is
\* listed by ffmpeg and passes test_encoder; an unlisted candidate is never
\* smoke-tested or selected, no candidate after the first passing one is
\* smoke-tested, and libx264 is returned when no candidate passes.
C9_FirstListedPassing ==
    /\ \A k \in 1..Len(smokes) :
          /\ SmokeEncoder(smokes[k]) \in ListedByQuery
          /\ smokes[k].res = "rc0" => k = Len(smokes)
          /\ \A j \in 1..(k - 1) :
                Rank(SmokeEncoder(smokes[j])) < Rank(SmokeEncoder(smokes[k]))
    /\ SelectionReturned =>
          LET passed == {SmokeEncoder(smokes[k]) : k \in
                            {j \in 1..Len(smokes) : smokes[j].res = "rc0"}}
              tested == {SmokeEncoder(smokes[k]) : k \in 1..Len(smokes)}
          IN  /\ encoder \in Candidates =>
                    /\ encoder \in ListedByQuery
                    /\ passed = {encoder}
                    /\ \A c \in ListedByQuery :
                          Rank(c) < Rank(encoder) => c \in tested \ passed
              /\ encoder = "libx264" <=> passed = {}
              /\ encoder = "libx264" /\ queries[1].res # "timeout" =>
                    tested = ListedByQuery

C9_Witness ==
    /\ SelectionReturned
    /\ encoder = "h264_nvenc"
    /\ ListedByQuery = Candidates
    /\ Len(smokes) = 3

\* C10 (as claimed): a smoke test that times out and a smoke test whose
\* subprocess cannot be launched both reject the candidate and let selection
\* go on; neither leaves encoder selection as a fatal error.
C10_SmokeFailuresRejected ==
    \A k \in 1..Len(smokes) :
        smokes[k].res \in {"timeout", "oserror"} =>
            /\ ~(k = Len(smokes) /\ err.at = "smoke")
            /\ encoder # SmokeEncoder(smokes[k])
            /\ (pc = "testing" /\ k = Len(smokes)) =>
                  cand > Rank(SmokeEncoder(smokes[k]))

-----------------------------------------------------------------------------
(* C11 .. C14: extraction and the input errors *)

\* the variables of the job other than pc
job_vars == <<args, source, dir_exists, dir_created, temp_files, created,
              fits_files, frames, height, width, available_encoders, cand,
              procs, encoder, file_extension, input_pattern, ffmpeg_cmd, err>>

\* the input files in the order of lines 27-46
Inputs == CollectFiles(source, args.prefix)

\* the loop of line 60 has run to its end
ExtractionFinished ==
    /\ pc \notin {"start", "collect", "extract"}
    /\ err.type \notin {"SystemExit", "DecodeError"}

\* the per-frame artifacts this job has written
ArtifactsWritten == Glob(created, ArtifactExt(args))

\* C11: for N decodable source files, when extraction has finished exactly N
\* per-frame artifacts have been written, their sequence numbers are exactly
\* 0..N-1 without duplicates, and artifact i is the transform of the i-th
\* file in sorted source order.
C11_OneArtifactPerFrame ==
    ExtractionFinished =>
        LET n == Len(Inputs) IN
        /\ Len(frames) = n
        /\ Cardinality(ArtifactsWritten) = n
        /\ ArtifactsWritten = ArtifactsOf(n, ArtifactExt(args))
        /\ \A i \in 1..n :
              /\ frames[i].src = Inputs[i].stem
              /\ frames[i].h = PadEven(Inputs[i].h)
              /\ frames[i].w = PadEven(Inputs[i].w)
              /\ i < n => StrLess(Basename(Inputs[i]), Basename(Inputs[i + 1]))

C11_Witness ==
    /\ pc = "query"
    /\ Len(frames) = MaxFrames
    /\ MaxFrames > 1

\* the source directory yielded no frame
NoInput == pc \notin {"start", "collect"} /\ Len(fits_files) = 0

\* C12 (as claimed): whenever the source directory yields zero matching
\* frames, with a prefix filter or without one, the job ends in a fatal error
\* and has created nothing: no artifact, no raw-stream file, no temp_frames.
C12_NoInputLeavesNothing ==
    (Done /\ NoInput) =>
        /\ err.type # "none"
        /\ created = {}
        /\ ~(dir_created /\ dir_exists)

\* C13 (as claimed): an execution that ends with an input error (zero
\* matching frames) or with a decode error has spawned no external process.
C13_NoProcessBeforeInputError ==
    (Done /\ err.type \in {"SystemExit", "IndexError", "DecodeError"}) =>
        procs = <<>>

\* C14: if the source image at sorted position k cannot be read, the job is
\* aborted: no artifact with a sequence number >= k is written, no later
\* frame is given the number k, and no encode attempt is launched.
C14_UnreadableAborts ==
    /\ \A i \in 1..Len(frames) : frames[i].src = Inputs[i].stem
    /\ \A k \in 1..Len(Inputs) :
          (pc \notin {"start", "collect"} /\ ~Inputs[k].ok) =>
              /\ Len(frames) < k
              /\ ArtifactsWritten \subseteq ArtifactsOf(k - 1, ArtifactExt(args))
              /\ attempts = <<>>
    /\ err.type = "DecodeError" =>
          /\ Done
          /\ ~Inputs[Len(frames) + 1].ok

C14_Witness ==
    /\ err.type = "DecodeError"
    /\ Len(frames) = 1
    /\ Len(Inputs) = MaxFrames

-----------------------------------------------------------------------------
(* The transform of one frame, lines 63-84, on the samples themselves.     *)
(* A grid is its shape and its rows of samples; a sample of a normalised   *)
(* or persisted frame is a uint8.                                          *)

Grid(shape, px) == [shape |-> shape, px |-> px]

Samples(g) == {g.px[i][j] : i \in 1..g.shape[1], j \in 1..g.shape[2]}

\* data.min(), data.max()
Min(g) == CHOOSE m \in Samples(g) : \A v \in Samples(g) : m <= v
Max(g) == CHOOSE m \in Samples(g) : \A v \in Samples(g) : v <= m

\* what astype(np.uint8) can make of NaN: the conversion is undefined
NaNCasts == 0..255

\* ((v - min) / (max - min) * 255).astype(np.uint8) for max > min: the
\* quotient is in [0, 1] and the cast truncates
Scale(v, lo, hi) == ((v - lo) * 255) \div (hi - lo)

\* np.pad with one zero row for an odd height only
PadHeightOnly(img, h, w) ==
    IF h % 2 # 0 THEN Append(img, [j \in 1..w |-> <<0, 0, 0>>]) ELSE img

\* lines 80-84: np.pad(..., mode='constant') by one row when the height is
\* odd, then by one column when the width is odd
Pad(img, h, w) ==
    LET rows == IF h % 2 # 0
                THEN Append(img, [j \in 1..w |-> <<0, 0, 0>>])
                ELSE img
    IN  IF w % 2 # 0
        THEN [i \in 1..Len(rows) |-> Append(rows[i], <<0, 0, 0>>)]
        ELSE rows

\* cv2.cvtColor(norm, cv2.COLOR_GRAY2BGR): the sample in three channels
Gray2BGR(px) ==
    [i \in 1..Len(px) |-> [j \in 1..Len(px[i]) |-> <<px[i][j], px[i][j], px[i][j]>>]]

\* np.transpose(data, (1, 2, 0)) of a grid of shape (3, h, w)
Transpose120(g) ==
    Grid(<<g.shape[2], g.shape[3], g.shape[1]>>,
         [i \in 1..g.shape[2] |->
            [j \in 1..g.shape[3] |->
               [k \in 1..g.shape[1] |-> g.px[k][i][j]]]])

\* every sample of a 3-D grid
Samples3(g) ==
    {g.px[i][j][k] : i \in 1..g.shape[1], j \in 1..g.shape[2],
                     k \in 1..g.shape[3]}

\* heights and widths of the colour frames of the model
ColorShapes == {<<1, 1>>, <<1, 2>>}

\* fits.getdata has returned a 2-D grid of h rows and w columns over the
\* samples 0..MaxSample
InitFrame ==
    /\ pc = "decoded"
    /\ \E h \in 1..MaxDim, w \in 1..MaxDim :
          \E px \in [1..h -> [1..w -> 0..MaxSample]] : data = Grid(<<h, w>>, px)
    /\ norm = NoGrid
    /\ rgb = NoGrid
    /\ fpe = {}
    /\ idx = <<>>
    /\ names = <<>>
    /\ args = [bmp |-> FALSE, png |-> FALSE, test |-> FALSE, prefix |-> NoPrefix]
    /\ source = {}
    /\ temp_files = {}
    /\ dir_exists = TRUE
    /\ dir_created = TRUE
    /\ created = {}
    /\ fits_files = <<>>
    /\ frames = <<>>
    /\ height = 0
    /\ width = 0
    /\ available_encoders = {}
    /\ cand = 0
    /\ procs = <<>>
    /\ encoder = Unset
    /\ file_extension = Unset
    /\ input_pattern = UnsetFile
    /\ ffmpeg_cmd = NoCmd
    /\ err = NoError

\* lines 74-77: a grayscale grid is normalised by its minimum and maximum.
\* For a constant grid the division is 0.0 / 0.0: numpy warns (invalid
\* value), the quotient is NaN, and the cast of NaN to uint8 is undefined.
NormalizeGray ==
    /\ pc = "decoded"
    /\ Len(data.shape) = 2
    /\ LET lo == Min(data)
           hi == Max(data)
       IN  IF hi # lo
           THEN /\ norm' = [i \in 1..data.shape[1] |->
                              [j \in 1..data.shape[2] |-> Scale(data.px[i][j], lo, hi)]]
                /\ fpe' = fpe
           ELSE /\ \E c \in NaNCasts :
                      norm' = [i \in 1..data.shape[1] |->
                                 [j \in 1..data.shape[2] |-> c]]
                /\ fpe' = fpe \cup {"invalid"}
    /\ pc' = "normalised"
    /\ UNCHANGED <<data, rgb>>
    /\ UNCHANGED job_vars
    /\ UNCHANGED name_vars

\* lines 73 and 77-84: three channels, then the padding to even dimensions
PadFrame ==
    /\ pc = "normalised"
    /\ rgb' = Pad(IF Len(data.shape) = 3 THEN norm ELSE Gray2BGR(norm),
                  data.shape[1], data.shape[2])
    /\ pc' = "padded"
    /\ UNCHANGED <<data, norm, fpe>>
    /\ UNCHANGED job_vars
    /\ UNCHANGED name_vars

\* lines 66-73: a 3-D grid is brought to channels-last order and normalised
\* by the minimum and maximum over all its samples; the constant grid
\* divides 0.0 by 0.0 as in the grayscale branch
NormalizeColor ==
    /\ pc = "decoded"
    /\ Len(data.shape) = 3
    /\ LET d == IF data.shape[1] = 3 THEN Transpose120(data) ELSE data
           lo == CHOOSE m \in Samples3(d) : \A v \in Samples3(d) : m <= v
           hi == CHOOSE m \in Samples3(d) : \A v \in Samples3(d) : v <= m
       IN  /\ data' = d
           /\ IF hi # lo
              THEN /\ norm' = [i \in 1..d.shape[1] |->
                                 [j \in 1..d.shape[2] |->
                                    [k \in 1..d.shape[3] |->
                                       Scale(d.px[i][j][k], lo, hi)]]]
                   /\ fpe' = fpe
              ELSE /\ \E c \in NaNCasts :
                         norm' = [i \in 1..d.shape[1] |->
                                    [j \in 1..d.shape[2] |->
                                       [k \in 1..d.shape[3] |-> c]]]
                   /\ fpe' = fpe \cup {"invalid"}
    /\ pc' = "normalised"
    /\ UNCHANGED rgb
    /\ UNCHANGED job_vars
    /\ UNCHANGED name_vars

NextFrame ==
    \/ NormalizeGray
    \/ PadFrame

SpecFrame == InitFrame /\ [][NextFrame]_vars

-----------------------------------------------------------------------------
(* C15, C16: the persisted frame *)

ZeroPixel == <<0, 0, 0>>

\* C15: every persisted frame has even height and even width: an odd height
\* H gains exactly one zero row, an odd width W gains exactly one zero
\* column, and a frame with even height and width keeps its dimensions and
\* its contents.
C15_PaddedToEven ==
    pc = "padded" =>
        LET H == data.shape[1]
            W == data.shape[2]
            rows == Len(rgb)
        IN  /\ rows % 2 = 0
            /\ rows = (IF H % 2 = 1 THEN H + 1 ELSE H)
            /\ \A i \in 1..rows :
                  /\ Len(rgb[i]) % 2 = 0
                  /\ Len(rgb[i]) = (IF W % 2 = 1 THEN W + 1 ELSE W)
                  /\ \A j \in 1..Len(rgb[i]) :
                        IF i <= H /\ j <= W
                        THEN rgb[i][j] = <<norm[i][j], norm[i][j], norm[i][j]>>
                        ELSE rgb[i][j] = ZeroPixel

C15_Witness ==
    /\ pc = "padded"
    /\ data.shape = <<1, 2>>
    /\ Len(rgb) = 2
    /\ rgb[1][1] = <<255, 255, 255>>
    /\ rgb[2][1] = ZeroPixel

\* C16 (as claimed): normalisation maps the minimum sample of a frame to 0
\* and its maximum to 255 exactly, and a constant frame is mapped to all
\* zeros without a division by zero being performed or raised.
C16_MinMaxAndConstant ==
    pc \in {"normalised", "padded"} =>
        /\ \A i \in 1..data.shape[1], j \in 1..data.shape[2] :
              /\ (data.px[i][j] = Min(data)) => norm[i][j] = 0
              /\ (data.px[i][j] = Max(data) /\ Max(data) # Min(data)) =>
                    norm[i][j] = 255
        /\ fpe = {}

-----------------------------------------------------------------------------
(* The collection of the input files on directories with varied names,     *)
(* lines 22-97: the directory, the list, and the frames numbered from it.  *)

\* the names of the collection model: r_1, r_2, r_10, r_01, r_a, r_a1, x_1
CollectStems ==
    {<<"r", "_", "1">>, <<"r", "_", "2">>, <<"r", "_", "1", "0">>,
     <<"r", "_", "0", "1">>, <<"r", "_", "a">>, <<"r", "_", "a", "1">>,
     <<"x", "_", "1">>}

\* the files a directory of the collection model can hold: decodable images
\* of those names, and r_3.txt
CollectPool ==
    UNION {Readable(n) : n \in CollectStems}
      \cup {SourceFile(<<"r", "_", "3">>, "txt", FALSE, 0, 0)}

InitCollect ==
    /\ pc = "start"
    /\ args \in [bmp : {FALSE}, png : {FALSE}, test : {FALSE},
                 prefix : JobPrefixes]
    /\ source \in SUBSET CollectPool
    /\ temp_files = {}
    /\ dir_exists \in BOOLEAN
    /\ dir_created = FALSE
    /\ created = {}
    /\ fits_files = <<>>
    /\ frames = <<>>
    /\ height = 0
    /\ width = 0
    /\ available_encoders = {}
    /\ cand = 0
    /\ procs = <<>>
    /\ encoder = Unset
    /\ file_extension = Unset
    /\ input_pattern = UnsetFile
    /\ ffmpeg_cmd = NoCmd
    /\ err = NoError
    /\ data = NoGrid
    /\ norm = NoGrid
    /\ rgb = NoGrid
    /\ fpe = {}
    /\ idx = <<>>
    /\ names = <<>>

NextCollect ==
    \/ MakeDirs
    \/ Collect
    \/ ExtractFrame
    \/ ExtractDone

SpecCollect == InitCollect /\ [][NextCollect]_vars

-----------------------------------------------------------------------------
(* C17, C18: which names are accepted, and in which order *)

\* the characters of a stem after the prefix
Suffix(prefix, stem) == SubSeq(stem, Len(prefix) + 1, Len(stem))

\* <prefix><one or more digits>
Numbered(prefix, stem) ==
    /\ StartsWith(stem, prefix)
    /\ Len(stem) > Len(prefix)
    /\ \A k \in (Len(prefix) + 1)..Len(stem) : stem[k] \in Digits

\* the number a sequence of digits denotes
RECURSIVE Value(_)
Value(ds) ==
    IF ds = <<>> THEN 0
    ELSE 10 * Value(SubSeq(ds, 1, Len(ds) - 1)) + (Ord(ds[Len(ds)]) - 48)

Collected == {fits_files[i] : i \in 1..Len(fits_files)}

\* C17 (as claimed): the prefix filter accepts a file name if and only if
\* it is <prefix><one or more digits>.fits; a name with other characters
\* between the prefix and the trailing digits is rejected.
C17_PrefixThenDigitsOnly ==
    (pc \notin {"start", "collect"} /\ args.prefix # NoPrefix) =>
        \A f \in source :
            f \in Collected <=> (f.ext = "fits" /\ Numbered(args.prefix, f.stem))

\* C18 (as claimed): for source files named <prefix><digits>.fits the
\* sequence numbers are assigned in increasing numeric order of the digit
\* suffix, and the frames written are one per source file in that order.
C18_NumericOrder ==
    (pc = "query" /\ args.prefix # NoPrefix) =>
        /\ Len(frames) = Len(fits_files)
        /\ \A i \in 1..Len(frames) : frames[i].src = fits_files[i].stem
        /\ \A i, j \in 1..Len(frames) :
              (/\ i < j
               /\ Numbered(args.prefix, frames[i].src)
               /\ Numbered(args.prefix, frames[j].src)) =>
                  Value(Suffix(args.prefix, frames[i].src))
                     <= Value(Suffix(args.prefix, frames[j].src))

-----------------------------------------------------------------------------
(* C19, C20: what the encoder is told to read *)

HasFlag(cmd, flag) == \E j \in 1..Len(cmd) : cmd[j] = flag

\* the argument after the first occurrence of a flag
ArgAfter(cmd, flag) ==
    LET k == CHOOSE j \in 1..(Len(cmd) - 1) :
                 /\ cmd[j] = flag
                 /\ \A l \in 1..(j - 1) : cmd[l] # flag
    IN  cmd[k + 1]

\* the files of this job that are in temp_frames now
OwnArtifacts == created \cap temp_files

\* image-sequence input: -framerate 60 -i temp_frames/frame_%04d.<ext>
ImageSequence(cmd, ext) ==
    /\ ~HasFlag(cmd, "-f")
    /\ HasFlag(cmd, "-framerate")
    /\ ArgAfter(cmd, "-framerate") = "60"
    /\ HasFlag(cmd, "-i")
    /\ ArgAfter(cmd, "-i") = Path(PatternFile(ext))

\* raw-stream input with size, pixel format and frame rate:
\* -f rawvideo -s <w>x<h> -pix_fmt rgb24 -r 60 -i temp_frames/raw_frames.rgb
RawStream(cmd, w, h) ==
    /\ HasFlag(cmd, "-f")
    /\ ArgAfter(cmd, "-f") = "rawvideo"
    /\ HasFlag(cmd, "-s")
    /\ ArgAfter(cmd, "-s") = ToString(w) \o "x" \o ToString(h)
    /\ HasFlag(cmd, "-pix_fmt")
    /\ ArgAfter(cmd, "-pix_fmt") = "rgb24"
    /\ HasFlag(cmd, "-r")
    /\ ArgAfter(cmd, "-r") = "60"
    /\ HasFlag(cmd, "-i")
    /\ ArgAfter(cmd, "-i") = Path(raw_temp_file)

\* the command the except block is about to run
FallbackLaunch == fallback_cmd(args, encoder, input_pattern, width, height)

\* C19 (as claimed): whenever a fallback attempt is launched, for every
\* artifact format and failing encoder, the input named by the fallback
\* command refers to artifacts of the current job that exist in temp_frames
\* at that moment, in the input mode matching those artifacts.
C19_FallbackInputExists ==
    pc = "fallback" =>
        LET n == Len(fits_files) IN
        \/ /\ RawStream(FallbackLaunch, width, height)
           /\ raw_temp_file \in OwnArtifacts
        \/ \E e \in {"bmp", "png"} :
              /\ ImageSequence(FallbackLaunch, e)
              /\ ArtifactsOf(n, e) \subseteq OwnArtifacts

\* C20: the primary pipeline follows the table: bmp or png artifacts give
\* image-sequence input for every encoder; raw artifacts with libx264 or a
\* hardware encoder other than h264_vaapi give raw-stream input with size,
\* pixel format and frame rate; raw artifacts with h264_vaapi give
\* image-sequence input after every raw artifact 0..N-1 has been
\* materialized as a BMP.
C20_PrimaryFollowsTable ==
    pc = "primary" =>
        LET n == Len(fits_files) IN
        /\ HasFlag(ffmpeg_cmd, "-c:v")
        /\ ArgAfter(ffmpeg_cmd, "-c:v") = encoder
        /\ IF args.bmp THEN ImageSequence(ffmpeg_cmd, "bmp")
           ELSE IF args.png THEN ImageSequence(ffmpeg_cmd, "png")
           ELSE IF encoder = "h264_vaapi"
           THEN /\ ImageSequence(ffmpeg_cmd, "bmp")
                /\ ArtifactsOf(n, "npy") \subseteq OwnArtifacts
                /\ ArtifactsOf(n, "bmp") \subseteq OwnArtifacts
           ELSE /\ RawStream(ffmpeg_cmd, frames[1].w, frames[1].h)
                /\ raw_temp_file \in OwnArtifacts

C20_Witness ==
    /\ pc = "primary"
    /\ ~(args.bmp \/ args.png)
    /\ encoder \notin {"h264_vaapi", "libx264"}
    /\ Len(fits_files) = MaxFrames
    /\ RawStream(ffmpeg_cmd, 2, 4)

-----------------------------------------------------------------------------
(* C21, C22: the command lines as functions of encoder, format and size *)

\* lines 158-241: the command the primary attempt gets for an encoder, the
\* format flags and the size of frame 0
primary_cmd(a, enc, w, h) ==
    IF a.bmp \/ a.png THEN ImageCmd(enc, PatternFile(ArtifactExt(a)))
    ELSE IF enc = "h264_vaapi" THEN VaapiRawCmd(PatternFile("bmp"))
    ELSE RawCmd(enc, w, h)

\* C21 (as claimed): two pipeline builds with the same encoder, artifact
\* format and dimensions, whether built as a primary attempt or rebuilt as
\* the fallback attempt, have identical command arguments: the fallback
\* command for libx264 is the command a primary attempt for libx264 gets
\* with the same flags and frame size.
C21_SameBuildSameCommand ==
    (pc = "fallback" /\ Len(frames) > 0) =>
        FallbackLaunch = primary_cmd(args, "libx264", frames[1].w, frames[1].h)

\* C22: every command built for libx264, primary or fallback, in every
\* input mode, has constant-rate-factor arguments and no bitrate argument;
\* every command built for a hardware encoder has a constant bitrate
\* argument and no constant-rate-factor argument.
C22_RateControlPerEncoderClass ==
    \A k \in 1..Len(attempts) :
        LET cmd == attempts[k].cmd IN
        /\ HasFlag(cmd, "-c:v")
        /\ IF ArgAfter(cmd, "-c:v") = "libx264"
           THEN /\ HasFlag(cmd, "-crf")
                /\ ArgAfter(cmd, "-crf") = "23"
                /\ ~HasFlag(cmd, "-b:v")
           ELSE /\ HasFlag(cmd, "-b:v")
                /\ ArgAfter(cmd, "-b:v") = "8M"
                /\ ~HasFlag(cmd, "-crf")

C22_Witness ==
    /\ Len(attempts) = 2
    /\ ~(args.bmp \/ args.png)
    /\ ArgAfter(attempts[1].cmd, "-c:v") = "h264_nvenc"
    /\ HasFlag(attempts[1].cmd, "-b:v")
    /\ ArgAfter(attempts[2].cmd, "-c:v") = "libx264"
    /\ HasFlag(attempts[2].cmd, "-crf")

-----------------------------------------------------------------------------
(* C23: the order of the phases *)

\* the phase a subprocess belongs to
PhaseRank(kind) ==
    CASE kind = "query" -> 1
      [] kind = "smoke" -> 2
      [] kind = "primary" -> 3
      [] kind = "fallback" -> 4

\* C23: the phases occur strictly in the order frame extraction, capability
\* query and smoke tests, primary encode, fallback encode: no query or smoke
\* test starts before the last artifact is written, no encode attempt starts
\* before encoder selection has returned, and the fallback starts only after
\* the primary process has exited.
C23_PhasesInOrder ==
    /\ \A i, j \in 1..Len(procs) :
          i < j =>
             /\ PhaseRank(procs[i].kind) <= PhaseRank(procs[j].kind)
             /\ (PhaseRank(procs[i].kind) = PhaseRank(procs[j].kind)) =>
                    procs[i].kind = "smoke"
    /\ procs # <<>> =>
          /\ pc \notin {"start", "collect", "extract"}
          /\ Len(frames) = Len(fits_files)
          /\ ArtifactsWritten = ArtifactsOf(Len(fits_files), ArtifactExt(args))
    /\ attempts # <<>> =>
          /\ attempts[1].kind = "primary"
          /\ pc \notin {"query", "testing", "build"}
          /\ encoder # Unset
          /\ ArgAfter(attempts[1].cmd, "-c:v") = encoder
    /\ Len(attempts) > 1 =>
          /\ Len(attempts) = 2
          /\ attempts[2].kind = "fallback"
          /\ attempts[1].res = "rc1"

C23_Witness ==
    /\ Len(frames) = MaxFrames
    /\ Len(smokes) > 1
    /\ Len(attempts) = 2
    /\ attempts[2].res = "rc0"

-----------------------------------------------------------------------------
(* The transform of a colour frame, lines 63-84 *)

\* fits.getdata has returned a 3-D grid, channels first (3, h, w) or
\* channels last (h, w, 3), over the samples 0..MaxSample
InitColor ==
    /\ pc = "decoded"
    /\ \E s \in ColorShapes :
          \E shape \in {<<3, s[1], s[2]>>, <<s[1], s[2], 3>>} :
             \E px \in [1..shape[1] -> [1..shape[2] -> [1..shape[3] -> 0..MaxSample]]] :
                data = Grid(shape, px)
    /\ norm = NoGrid
    /\ rgb = NoGrid
    /\ fpe = {}
    /\ idx = <<>>
    /\ names = <<>>
    /\ args = [bmp |-> FALSE, png |-> FALSE, test |-> FALSE, prefix |-> NoPrefix]
    /\ source = {}
    /\ temp_files = {}
    /\ dir_exists = TRUE
    /\ dir_created = TRUE
    /\ created = {}
    /\ fits_files = <<>>
    /\ frames = <<>>
    /\ height = 0
    /\ width = 0
    /\ available_encoders = {}
    /\ cand = 0
    /\ procs = <<>>
    /\ encoder = Unset
    /\ file_extension = Unset
    /\ input_pattern = UnsetFile
    /\ ffmpeg_cmd = NoCmd
    /\ err = NoError

NextColor ==
    \/ NormalizeColor
    \/ PadFrame

SpecColor == InitColor /\ [][NextColor]_vars

\* the samples of channel k of a channels-last grid
Channel(g, k) == {g.px[i][j][k] : i \in 1..g.shape[1], j \in 1..g.shape[2]}

ChannelMin(g, k) == CHOOSE m \in Channel(g, k) : \A v \in Channel(g, k) : m <= v

ChannelMax(g, k) == CHOOSE m \in Channel(g, k) : \A v \in Channel(g, k) : v <= m

\* round((v - lo) / (hi - lo) * 255), halves upwards
RoundScale(v, lo, hi) == (2 * (v - lo) * 255 + (hi - lo)) \div (2 * (hi - lo))

\* C24 (as claimed): for a 3-channel frame the normalisation is per channel:
\* each channel's own minimum maps to 0 and its own maximum to 255, with the
\* values in between rounded to nearest and within [0, 255].
C24_PerChannelRounded ==
    (pc \in {"normalised", "padded"} /\ Len(data.shape) = 3) =>
        \A k \in 1..data.shape[3] :
            ChannelMax(data, k) # ChannelMin(data, k) =>
                \A i \in 1..data.shape[1], j \in 1..data.shape[2] :
                    /\ norm[i][j][k] \in 0..255
                    /\ norm[i][j][k] =
                          RoundScale(data.px[i][j][k], ChannelMin(data, k),
                                     ChannelMax(data, k))

-----------------------------------------------------------------------------
(* C25: what an image-sequence input reads *)

\* the files ffmpeg reads for -i frame_%04d.<ext>: it looks for the first
\* index among 0..4 and reads consecutive indices until one is missing
SequenceRead(files, ext) ==
    LET present(i) == FrameFile(i, ext) \in files
        starts == {s \in 0..4 : present(s)}
    IN  IF starts = {} THEN {}
        ELSE LET first == CHOOSE s \in starts : \A t \in starts : s <= t
             IN  {FrameFile(i, ext) : i \in {m \in first..(MaxFrames + 1) :
                                                \A j \in first..m : present(j)}}

\* C25 (as claimed): the image-sequence input handed to the encoder consists
\* of exactly the N frames written by the current job, also when temp_frames
\* held artifacts of an earlier job before this one started.
C25_OnlyOwnFramesRead ==
    (pc = "primary" /\ Len(fits_files) > 0) =>
        \A e \in {"bmp", "png"} :
            ImageSequence(ffmpeg_cmd, e) =>
                /\ SequenceRead(temp_files, e) = ArtifactsOf(Len(fits_files), e)
                /\ SequenceRead(temp_files, e) \subseteq created

-----------------------------------------------------------------------------
(* C26, C27: cleanup and the artifact format *)

\* os.rmdir(temp_dir) is about to be called, or has been
AtOrPastRmdir == pc = "rmdir" \/ (Done /\ err.at \in {"none", "rmdir"})

\* C26: on every path where the primary or the fallback attempt exits 0,
\* for every artifact format and selected encoder, all files the job created
\* (per-frame artifacts, BMPs written for h264_vaapi, raw_frames.rgb) have
\* been deleted by the time os.rmdir(temp_dir) is called.
C26_OwnFilesGoneAtRmdir ==
    /\ (EncodeSucceeded /\ pc \notin {"primary", "fallback"}) =>
           pc = "cleanup" \/ AtOrPastRmdir
    /\ AtOrPastRmdir =>
           /\ EncodeSucceeded
           /\ created \cap temp_files = {}

C26_Witness ==
    /\ pc = "rmdir"
    /\ ~(args.bmp \/ args.png)
    /\ encoder = "h264_vaapi"
    /\ Len(attempts) = 2
    /\ created = ArtifactsOf(MaxFrames, "npy") \cup ArtifactsOf(MaxFrames, "bmp")
    /\ created \cap temp_files = {}

\* the pipeline is built: the input pattern and the cleanup glob are set
PipelineBuilt == pc \in {"primary", "fallback", "cleanup", "rmdir"}

\* C27 (as claimed): for every combination of the --bmp and --png flags the
\* format of the artifacts written in extraction, the extension of the
\* encoder's input pattern and the glob of the cleanup name one format.
C27_OneFormatEverywhere ==
    (PipelineBuilt /\ Len(fits_files) > 0) =>
        \E e \in {"bmp", "png", "npy"} :
            /\ ArtifactsOf(Len(fits_files), e) \subseteq created
            /\ file_extension = e
            /\ \A p \in {"bmp", "png"} : ImageSequence(ffmpeg_cmd, p) => p = e

\* C27 (amended): when --bmp or --png is given, both at once included, the
\* artifacts written, the input pattern and the cleanup glob all name one
\* format, bmp if --bmp is given and png otherwise.  With neither flag the
\* artifacts and the cleanup glob are npy, and the encoder reads the raw
\* stream or, for h264_vaapi, the pattern of the BMPs written from them.
C27_OneFormatPerFlags ==
    (PipelineBuilt /\ Len(fits_files) > 0) =>
        LET n == Len(fits_files) IN
        IF args.bmp \/ args.png
        THEN LET e == IF args.bmp THEN "bmp" ELSE "png" IN
             /\ created = ArtifactsOf(n, e)
             /\ input_pattern = PatternFile(e)
             /\ ImageSequence(ffmpeg_cmd, e)
             /\ file_extension = e
        ELSE /\ ArtifactsOf(n, "npy") \subseteq created
             /\ file_extension = "npy"
             /\ IF encoder = "h264_vaapi"
                THEN /\ ImageSequence(ffmpeg_cmd, "bmp")
                     /\ created = ArtifactsOf(n, "npy") \cup ArtifactsOf(n, "bmp")
                ELSE /\ RawStream(ffmpeg_cmd, width, height)
                     /\ created = ArtifactsOf(n, "npy") \cup {raw_temp_file}

C27_Witness ==
    /\ pc = "cleanup"
    /\ args.bmp
    /\ args.png
    /\ Len(fits_files) = MaxFrames
    /\ created = ArtifactsOf(MaxFrames, "bmp")
    /\ file_extension = "bmp"

-----------------------------------------------------------------------------
(* The names of the artifacts, lines 86-97: f'frame_{i:04d}.<ext>' as the   *)
(* characters it is made of.                                               *)

\* str(i): the decimal digits of i
RECURSIVE Decimal(_)
Decimal(i) ==
    IF i < 10 THEN <<ToString(i)>>
    ELSE Append(Decimal(i \div 10), ToString(i % 10))

\* f'{i:04d}': zeros on the left up to a width of four, more digits kept
Pad4Chars(i) ==
    LET d == Decimal(i)
    IN  [k \in 1..(4 - Len(d)) |-> "0"] \o d

\* the indexes the extraction loop is looked at: around every change in the
\* number of digits
IndexPool ==
    {0, 1, 2, 9, 10, 11, 99, 100, 101, 999, 1000, 1001, 9999, 10000, 10001}

InitNames ==
    /\ pc = "index"
    /\ idx \in IndexPool \X IndexPool
    /\ names = <<>>
    /\ data = NoGrid
    /\ norm = NoGrid
    /\ rgb = NoGrid
    /\ fpe = {}
    /\ args = [bmp |-> FALSE, png |-> FALSE, test |-> FALSE, prefix |-> NoPrefix]
    /\ source = {}
    /\ temp_files = {}
    /\ dir_exists = TRUE
    /\ dir_created = TRUE
    /\ created = {}
    /\ fits_files = <<>>
    /\ frames = <<>>
    /\ height = 0
    /\ width = 0
    /\ available_encoders = {}
    /\ cand = 0
    /\ procs = <<>>
    /\ encoder = Unset
    /\ file_extension = Unset
    /\ input_pattern = UnsetFile
    /\ ffmpeg_cmd = NoCmd
    /\ err = NoError

\* lines 89, 93, 96: the name of frame i up to the extension
NameFrames ==
    /\ pc = "index"
    /\ names' = <<Pad4Chars(idx[1]) \o <<".">>, Pad4Chars(idx[2]) \o <<".">>>>
    /\ pc' = "named"
    /\ UNCHANGED idx
    /\ UNCHANGED frame_vars
    /\ UNCHANGED job_vars

NextNames == NameFrames

SpecNames == InitNames /\ [][NextNames]_vars

\* C28 (as claimed): for every number of frames, sorting the artifact file
\* names lexically gives the order of the sequence numbers: the name of a
\* smaller index is the smaller string.
C28_LexicalIsNumeric ==
    pc = "named" => ((idx[1] < idx[2]) <=> StrLess(names[1], names[2]))

-----------------------------------------------------------------------------
(* The raw-stream job on source images of different sizes, lines 22-293 *)

\* (height, width) of the source images of the raw-stream model
RawShapes == {<<3, 2>>, <<2, 4>>}

\* the directories of the raw-stream model: decodable images r_1, r_2, ...
\* of those sizes
RawDirectories ==
    {d \in SUBSET {SourceFile(n, "fits", TRUE, s[1], s[2]) :
                      n \in JobStems, s \in RawShapes} : UniqueNames(d)}

\* neither --bmp nor --png: the frames are stored as .npy; without --test
\* the encoder is libx264 and the input is the raw stream
InitRaw ==
    /\ pc = "start"
    /\ args \in [bmp : {FALSE}, png : {FALSE}, test : {FALSE},
                 prefix : {NoPrefix, <<"r", "_">>}]
    /\ source \in RawDirectories
    /\ temp_files \in {{}} \cup {{f} : f \in LeftoverPool}
    /\ dir_exists \in BOOLEAN
    /\ temp_files # {} => dir_exists
    /\ dir_created = FALSE
    /\ created = {}
    /\ fits_files = <<>>
    /\ frames = <<>>
    /\ height = 0
    /\ width = 0
    /\ available_encoders = {}
    /\ cand = 0
    /\ procs = <<>>
    /\ encoder = Unset
    /\ file_extension = Unset
    /\ input_pattern = UnsetFile
    /\ ffmpeg_cmd = NoCmd
    /\ err = NoError
    /\ data = NoGrid
    /\ norm = NoGrid
    /\ rgb = NoGrid
    /\ fpe = {}
    /\ idx = <<>>
    /\ names = <<>>

NextRaw ==
    \/ MakeDirs
    \/ Collect
    \/ ExtractFrame
    \/ ExtractDone
    \/ Query
    \/ Build
    \/ Primary
    \/ CleanupFiles
    \/ Rmdir

SpecRaw == InitRaw /\ [][NextRaw]_vars

\* C29 (as claimed): in raw-stream mode every frame written to
\* raw_frames.rgb has the width and height declared to the encoder, which
\* are those of frame 0, so the stream holds exactly N frames of the
\* declared size, also when the source images differ in size.
C29_StreamFramesHaveDeclaredSize ==
    (pc = "primary" /\ HasFlag(ffmpeg_cmd, "-s")) =>
        /\ Len(frames) = Len(fits_files)
        /\ \A i \in 1..Len(frames) :
              ArgAfter(ffmpeg_cmd, "-s") =
                  ToString(frames[i].w) \o "x" \o ToString(frames[i].h)

-----------------------------------------------------------------------------
(* C30: encoder selection ends with one encoder *)

\* check_gpu_encoders was called and control has left it
SelectionOver ==
    /\ queries # <<>>
    /\ pc \notin {"start", "collect", "extract", "query", "testing"}

\* C30 (as claimed): if the capability query times out or fails, the
\* selection returns libx264 without running a smoke test, whatever the
\* test flag; and in every case the selection ends after at most one query
\* and at most four smoke tests, returning exactly one encoder.
C30_SelectionReturnsOneEncoder ==
    /\ Len(queries) <= 1
    /\ Len(smokes) <= Len(encoders_to_try)
    /\ SelectionOver =>
          /\ encoder \in Candidates \cup {"libx264"}
          /\ queries[1].res \in {"timeout", "oserror"} =>
                /\ smokes = <<>>
                /\ encoder = "libx264"

====
